---- MODULE Spec2Model ----
(***************************************************************************)
(* s3_exporter: the /probe handler and Exporter.Collect.                   *)
(*                                                                         *)
(* The sources hold two builds of s3_exporter.go that the specification    *)
(* draws on:                                                               *)
(*   "storageclass"  src/s3_exporter.go (static configuration, several     *)
(*                   prefixes per probe, storage-class filter);            *)
(*   "delimiter"     src/README.md:305-593 (one prefix per probe,          *)
(*                   delimiter / common-prefix mode).                      *)
(* The process runs one of them; `build` says which.  The earliest         *)
(* revision (src/README.md:112-303) is an ancestor of both and is not      *)
(* modelled.                                                               *)
(*                                                                         *)
(* Strings that the code splits (the comma separated prefix lists) are     *)
(* sequences of characters; a prefix is therefore a sequence of            *)
(* characters too.  All other strings are TLA+ strings.  Timestamps are    *)
(* integers relative to Go's zero time.Time (ZeroTime).                    *)
(***************************************************************************)
EXTENDS Integers, Sequences, FiniteSets, TLC

VARIABLES build, cfg, alive, probe, hist, disc

vars == <<build, cfg, alive, probe, hist, disc>>

-----------------------------------------------------------------------------
(* Bounds *)

\* listing calls that one prefix's pagination may take
MaxPages == 2
\* buckets that one bucket listing may return
MaxBuckets == 2
\* items over all pages of one prefix's listing
MaxItems == 2
\* latest last-modified timestamp an item carries (earliest is -1)
MaxTime == 1
\* largest item size
MaxSize == 2
\* CommonPrefixes entries in one page
MaxCommonPrefixes == 3

Probes == {"p1", "p2"}

\* nil pointers of the S3 SDK
NoToken == "nil"
NoClass == "nil"

\* the zero value of time.Time, which `var lastModified time.Time` starts at
ZeroTime == 0

Builds == {"delimiter", "storageclass"}

-----------------------------------------------------------------------------
(* Strings as sequences of characters *)

Empty == <<>>

HasComma(s) == \E i \in 1..Len(s) : s[i] = ","

FirstComma(s) == CHOOSE i \in 1..Len(s) : s[i] = "," /\ \A j \in 1..(i - 1) : s[j] # ","

\* strings.Split(s, ",")
RECURSIVE Split(_)
Split(s) ==
    IF ~HasComma(s) THEN <<s>>
    ELSE LET i == FirstComma(s)
         IN  <<SubSeq(s, 1, i - 1)>> \o Split(SubSeq(s, i + 1, Len(s)))

-----------------------------------------------------------------------------
(* Metric descriptors and samples *)

\* the variable labels each descriptor is declared with: "storageclass" build
DescLabelsSC(name) == <<"bucket", "prefix", "storage_class">>

\* the variable labels each descriptor is declared with: "delimiter" build
DescLabelsDelim(name) ==
    IF name \in {"list_success", "list_duration_seconds", "common_prefixes"}
    THEN <<"bucket", "prefix", "delimiter">>
    ELSE <<"bucket", "prefix">>

DescLabels(b, name) ==
    IF b = "storageclass" THEN DescLabelsSC(name) ELSE DescLabelsDelim(name)

\* prometheus.MustNewConstMetric panics when the number of label values
\* differs from the number of labels the descriptor declares
ConstMetricPanics(b, name, labelValues) ==
    Len(labelValues) # Len(DescLabels(b, name))

Sample(name, value, labelValues) ==
    [name |-> name, value |-> value, labels |-> labelValues]

SomePanics(b, samples) ==
    \E s \in {samples} : \E i \in 1..Len(s) :
        ConstMetricPanics(b, s[i].name, s[i].labels)

\* the registry refuses a collection in which two samples have the same
\* name and label values; promhttp then answers 500
HasDuplicates(out) ==
    \E o \in {out} : \E i, j \in 1..Len(o) :
        i < j /\ o[i].name = o[j].name /\ o[i].labels = o[j].labels

GatherStatus(out) == IF HasDuplicates(out) THEN 500 ELSE 200

-----------------------------------------------------------------------------
(* Exporter.Collect: the accumulators and the fold of one page *)

ZeroAcc ==
    [lastModified |-> ZeroTime, numberOfObjects |-> 0, totalSize |-> 0,
     biggestObjectSize |-> 0, lastObjectSize |-> 0, commonPrefixes |-> 0]

After_OrEqual(t, u) == t >= u

\* time.Time.After
After(t, u) == t > u

FilteredOut_Never(item, storageclass) == FALSE

\* the storage-class filter of the "storageclass" build
FilteredOut(item, storageclass) ==
    storageclass # "" /\ item.StorageClass # storageclass

\* *item.StorageClass with a nil StorageClass: nil pointer dereference
ItemPanics(item, storageclass) ==
    storageclass # "" /\ item.StorageClass = NoClass

\* the size of the latest item updated outside the comparison
CountItem_SizeUntracked(acc, item) ==
    LET newer == After(item.LastModified, acc.lastModified)
    IN  [acc EXCEPT
            !.numberOfObjects = @ + 1,
            !.totalSize = @ + item.Size,
            !.lastModified = IF newer THEN item.LastModified ELSE @,
            !.lastObjectSize = item.Size,
            !.biggestObjectSize = IF item.Size > @ THEN item.Size ELSE @]

\* the latest item replaced without comparing
CountItem_AlwaysReplace(acc, item) ==
    [acc EXCEPT
        !.numberOfObjects = @ + 1,
        !.totalSize = @ + item.Size,
        !.lastModified = item.LastModified,
        !.lastObjectSize = item.Size,
        !.biggestObjectSize = IF item.Size > @ THEN item.Size ELSE @]

\* the biggest size replaced without comparing
CountItem_LastIsBiggest(acc, item) ==
    LET newer == After(item.LastModified, acc.lastModified)
    IN  [acc EXCEPT
            !.numberOfObjects = @ + 1,
            !.totalSize = @ + item.Size,
            !.lastModified = IF newer THEN item.LastModified ELSE @,
            !.lastObjectSize = IF newer THEN item.Size ELSE @,
            !.biggestObjectSize = item.Size]

\* the body of `for _, item := range resp.Contents` for a counted item
CountItem(acc, item) ==
    LET newer == After(item.LastModified, acc.lastModified)
    IN  [acc EXCEPT
            !.numberOfObjects = @ + 1,
            !.totalSize = @ + item.Size,
            !.lastModified = IF newer THEN item.LastModified ELSE @,
            !.lastObjectSize = IF newer THEN item.Size ELSE @,
            !.biggestObjectSize = IF item.Size > @ THEN item.Size ELSE @]

FoldItem(acc, item, storageclass) ==
    IF FilteredOut(item, storageclass) THEN acc ELSE CountItem(acc, item)

RECURSIVE FoldContents(_, _, _)
FoldContents(acc, contents, storageclass) ==
    IF contents = <<>> THEN acc
    ELSE FoldContents(FoldItem(acc, Head(contents), storageclass),
                      Tail(contents), storageclass)

ContentsPanic(contents, storageclass) ==
    \E i \in 1..Len(contents) : ItemPanics(contents[i], storageclass)

AddCommonPrefixes_Overwrite(acc, n) == [acc EXCEPT !.commonPrefixes = n]

\* `commonPrefixes = commonPrefixes + len(resp.CommonPrefixes)`
AddCommonPrefixes(acc, n) == [acc EXCEPT !.commonPrefixes = @ + n]

\* one page folded by the "storageclass" build
FoldPageSC(acc, resp, storageclass) ==
    FoldContents(acc, resp.Contents, storageclass)

\* one page folded by the "delimiter" build, which has no filter
FoldPageDelim(acc, resp) ==
    FoldContents(AddCommonPrefixes(acc, resp.CommonPrefixes), resp.Contents, "")

FoldPage(b, acc, resp, storageclass) ==
    IF b = "storageclass" THEN FoldPageSC(acc, resp, storageclass)
    ELSE FoldPageDelim(acc, resp)

\* the label values of the "storageclass" build
Labels(e, prefix) ==
    <<e.bucket, prefix, IF e.storageclass # "" THEN e.storageclass ELSE "*">>

\* the sample sent when a listing call fails
FailureSamples(e, prefix) ==
    <<Sample("list_success", 0, <<e.bucket, prefix>>)>>

\* Numbers beyond the range of the model checker's integers are sequences of
\* decimal digits, least significant first, without leading zeros; a signed
\* number is [neg, mag].
RECURSIVE Digits(_)
Digits(n) == IF n = 0 THEN <<>> ELSE <<n % 10>> \o Digits(n \div 10)

RECURSIVE Trim(_)
Trim(a) ==
    IF a # <<>> /\ a[Len(a)] = 0 THEN Trim(SubSeq(a, 1, Len(a) - 1)) ELSE a

FromDecimal(d) == [k \in 1..Len(d) |-> d[Len(d) + 1 - k]]

Digit(a, k) == IF k <= Len(a) THEN a[k] ELSE 0

Plus(a, b) ==
    LET n == (IF Len(a) > Len(b) THEN Len(a) ELSE Len(b)) + 1
        carry[k \in 0..n] ==
            IF k = 0 THEN 0
            ELSE (Digit(a, k) + Digit(b, k) + carry[k - 1]) \div 10
    IN  Trim([k \in 1..n |-> (Digit(a, k) + Digit(b, k) + carry[k - 1]) % 10])

\* a - b, for a >= b
Minus(a, b) ==
    LET n == Len(a)
        borrow[k \in 0..n] ==
            IF k = 0 THEN 0
            ELSE IF Digit(a, k) - Digit(b, k) - borrow[k - 1] < 0 THEN 1 ELSE 0
    IN  Trim([k \in 1..n |->
                (Digit(a, k) - Digit(b, k) - borrow[k - 1] + 10) % 10])

Less(a, b) ==
    \/ Len(a) < Len(b)
    \/ /\ Len(a) = Len(b)
       /\ \E k \in 1..Len(a) :
              a[k] < b[k] /\ \A j \in (k + 1)..Len(a) : a[j] = b[j]

\* seconds from January 1, year 1 (the zero time.Time) to the Unix epoch
UnixToInternal == FromDecimal(<<6, 2, 1, 3, 5, 5, 9, 6, 8, 0, 0>>)

\* 2^63 and 2^64
MinInt64Mag == FromDecimal(<<9, 2, 2, 3, 3, 7, 2, 0, 3, 6, 8, 5, 4, 7, 7, 5, 8, 0, 8>>)

Int64Modulus ==
    FromDecimal(<<1, 8, 4, 4, 6, 7, 4, 4, 0, 7, 3, 7, 0, 9, 5, 5, 1, 6, 1, 6>>)

\* the Unix time in seconds of a timestamp; the timestamps of the model are
\* all before the Unix epoch
UnixSeconds(t) ==
    [neg |-> TRUE,
     mag |-> IF t >= 0 THEN Minus(UnixToInternal, Digits(t))
             ELSE Plus(UnixToInternal, Digits(0 - t))]

\* x * 1e9 before it is cut to 64 bits
TimesE9(x) ==
    [x EXCEPT !.mag = IF @ = <<>> THEN <<>> ELSE [k \in 1..9 |-> 0] \o @]

\* a number cut to an int64: the multiplication in UnixNano wraps around
RECURSIVE Wrap64(_)
Wrap64(x) ==
    IF x.neg
    THEN IF ~Less(MinInt64Mag, x.mag) THEN x
         ELSE IF ~Less(x.mag, Int64Modulus)
         THEN Wrap64([x EXCEPT !.mag = Minus(@, Int64Modulus)])
         ELSE [neg |-> FALSE, mag |-> Minus(Int64Modulus, x.mag)]
    ELSE IF Less(x.mag, MinInt64Mag) THEN x
         ELSE IF ~Less(x.mag, Int64Modulus)
         THEN Wrap64([x EXCEPT !.mag = Minus(@, Int64Modulus)])
         ELSE Wrap64([neg |-> TRUE, mag |-> Minus(Int64Modulus, x.mag)])

\* lastModified.UnixNano(), for a timestamp without a fraction of a second
UnixNano(t) == Wrap64(TimesE9(UnixSeconds(t)))

\* x / 1e9 on int64: the quotient truncated toward zero
DivE9(x) ==
    LET q == SubSeq(x.mag, 10, Len(x.mag))
    IN  [neg |-> x.neg /\ q # <<>>, mag |-> q]

\* lastModified.Unix() in place of lastModified.UnixNano()/1e9
DateValue_Unix(t) == UnixSeconds(t)

\* float64(lastModified.UnixNano()/1e9), computed once for the timestamps up
\* to MaxTime; the conversion to float64 is exact below 2^53
DateValues == [t \in ZeroTime..MaxTime |-> DivE9(UnixNano(t))]

DateValue(t) ==
    IF t \in DOMAIN DateValues THEN DateValues[t] ELSE DivE9(UnixNano(t))

\* the size/count/last-modified family
ObjectSamples(acc, labelValues) ==
    << Sample("last_modified_object_date", DateValue(acc.lastModified), labelValues),
       Sample("last_modified_object_size_bytes", acc.lastObjectSize, labelValues),
       Sample("objects", acc.numberOfObjects, labelValues),
       Sample("biggest_object_size_bytes", acc.biggestObjectSize, labelValues),
       Sample("objects_size_sum_bytes", acc.totalSize, labelValues) >>

\* the samples sent after the pagination of one prefix; the elapsed time of
\* list_duration_seconds is abstracted to 0
SuccessSamplesSC(e, prefix, acc) ==
    << Sample("list_success", 1, Labels(e, prefix)),
       Sample("list_duration_seconds", 0, Labels(e, prefix)) >>
    \o ObjectSamples(acc, Labels(e, prefix))

\* both families sent whatever the delimiter is
SuccessSamplesDelim_BothFamilies(e, prefix, acc) ==
    << Sample("list_success", 1, <<e.bucket, prefix, e.delimiter>>),
       Sample("list_duration_seconds", 0, <<e.bucket, prefix, e.delimiter>>) >>
    \o ObjectSamples(acc, <<e.bucket, prefix>>)
    \o << Sample("common_prefixes", acc.commonPrefixes,
                 <<e.bucket, prefix, e.delimiter>>) >>

SuccessSamplesDelim(e, prefix, acc) ==
    << Sample("list_success", 1, <<e.bucket, prefix, e.delimiter>>),
       Sample("list_duration_seconds", 0, <<e.bucket, prefix, e.delimiter>>) >>
    \o (IF e.delimiter = ""
        THEN ObjectSamples(acc, <<e.bucket, prefix>>)
        ELSE << Sample("common_prefixes", acc.commonPrefixes,
                       <<e.bucket, prefix, e.delimiter>>) >>)

SuccessSamples(b, e, prefix, acc) ==
    IF b = "storageclass" THEN SuccessSamplesSC(e, prefix, acc)
    ELSE SuccessSamplesDelim(e, prefix, acc)

-----------------------------------------------------------------------------
(* probeHandler *)

BucketMissingSC_Unchecked(req, c) == FALSE

\* the request is refused with 400: "storageclass" build
BucketMissingSC(req, c) == req.bucket = "" /\ c.bucket = ""

\* the request is refused with 400: "delimiter" build
BucketMissingDelim(req) == req.bucket = ""

BucketMissing(b, req, c) ==
    IF b = "storageclass" THEN BucketMissingSC(req, c) ELSE BucketMissingDelim(req)

\* bucketName
BucketName(req, c) == IF req.bucket # "" THEN req.bucket ELSE c.bucket

\* the static prefixes taken before the query parameters
Prefixes_StaticFirst(req, c) ==
    IF c.prefixes # Empty THEN Split(c.prefixes)
    ELSE IF req.prefixes # Empty THEN Split(req.prefixes)
    ELSE IF req.prefix # Empty THEN <<req.prefix>>
    ELSE <<Empty>>

\* prefixes
Prefixes(req, c) ==
    IF req.prefixes # Empty THEN Split(req.prefixes)
    ELSE IF req.prefix # Empty THEN <<req.prefix>>
    ELSE IF c.prefixes # Empty THEN Split(c.prefixes)
    ELSE <<Empty>>

\* storageclass
StorageClass(req, c) ==
    IF req.storageclass = "" /\ c.storageclass # "" THEN c.storageclass
    ELSE req.storageclass

\* &Exporter{...} of the "storageclass" build, which has no delimiter
NewExporterSC(req, c) ==
    [bucket |-> BucketName(req, c), prefixes |-> Prefixes(req, c),
     delimiter |-> "", storageclass |-> StorageClass(req, c)]

\* &Exporter{...} of the "delimiter" build, which has one prefix and no
\* storage-class filter
NewExporterDelim(req) ==
    [bucket |-> req.bucket, prefixes |-> <<req.prefix>>,
     delimiter |-> req.delimiter, storageclass |-> ""]

NewExporter(b, req, c) ==
    IF b = "storageclass" THEN NewExporterSC(req, c) ELSE NewExporterDelim(req)

NoRequest ==
    [bucket |-> "", prefixes |-> Empty, prefix |-> Empty, delimiter |-> "",
     storageclass |-> ""]

NoExporter ==
    [bucket |-> "", prefixes |-> <<>>, delimiter |-> "", storageclass |-> ""]

NoConfig == [bucket |-> "", prefixes |-> Empty, storageclass |-> ""]

\* a probe slot before its request arrives.
\*   pc      "idle", "next" (at the top of `for _, prefix := range`),
\*           "listing" (inside the pagination loop), "done", "rejected",
\*           "panicked"
\*   pi      index of the prefix being listed
\*   token   query.ContinuationToken
\*   out     the samples sent on ch
\*   status  the HTTP status of the response, 0 while there is none
\*   body    the samples of the response
\*   seen, cps, calls, pages, listErr   history: the items and the number of
\*           CommonPrefixes entries returned for the current prefix, the
\*           listing calls made by the probe and by the current prefix's
\*           pagination, and whether a listing call returned an error
IdleProbe ==
    [pc |-> "idle", req |-> NoRequest, e |-> NoExporter, pi |-> 0,
     token |-> NoToken, acc |-> ZeroAcc, out |-> <<>>, status |-> 0,
     body |-> <<>>, seen |-> <<>>, cps |-> 0, calls |-> 0, pages |-> 0,
     listErr |-> FALSE]

ProbeHandler(p, req) ==
    /\ alive
    /\ probe[p].pc = "idle"
    /\ probe' = [probe EXCEPT ![p] =
          IF BucketMissing(build, req, cfg)
          THEN [@ EXCEPT !.pc = "rejected", !.req = req, !.status = 400]
          ELSE [@ EXCEPT !.pc = "next", !.req = req,
                         !.e = NewExporter(build, req, cfg)]]
    /\ UNCHANGED <<build, cfg, alive>>

-----------------------------------------------------------------------------
(* Exporter.Collect: one listing call and everything up to the next one *)

\* the Exporter registered with a registry that all requests share: the
\* response also carries what the probes served before collected
Served_SharedRegistry(pr, out) ==
    LET earlier == CHOOSE q \in Probes :
                       \A r \in Probes : Len(probe[r].out) <= Len(probe[q].out)
        all == probe[earlier].out \o out
    IN  [pr EXCEPT !.pc = "done", !.out = out, !.status = GatherStatus(all),
                   !.body = IF GatherStatus(all) = 200 THEN all ELSE <<>>]

\* Collect returns: the registry gathers what was sent and the response is
\* written
Served(pr, out) ==
    [pr EXCEPT !.pc = "done", !.out = out, !.status = GatherStatus(out),
               !.body = IF GatherStatus(out) = 200 THEN out ELSE <<>>]

\* one query for all prefixes: the token of the previous prefix stays in it
AtCall_QueryReused(pr) ==
    IF pr.pc = "next"
    THEN [pr EXCEPT !.pi = @ + 1, !.acc = ZeroAcc,
                    !.seen = <<>>, !.cps = 0, !.pages = 0]
    ELSE pr

\* the state of the probe at its listing call: a call made at the top of the
\* prefix loop starts the next prefix with fresh accumulators and no token
AtCall(pr) ==
    IF pr.pc = "next"
    THEN [pr EXCEPT !.pi = @ + 1, !.acc = ZeroAcc, !.token = NoToken,
                    !.seen = <<>>, !.cps = 0, !.pages = 0]
    ELSE pr

\* the failed call is made again
OnError_Retried(b, pr) == [pr EXCEPT !.pc = "listing", !.listErr = TRUE]

\* the listing call returned an error
OnError(b, pr) ==
    LET prefix == pr.e.prefixes[pr.pi]
        samples == FailureSamples(pr.e, prefix)
    IN  IF SomePanics(b, samples)
        THEN [pr EXCEPT !.pc = "panicked", !.listErr = TRUE]
        ELSE Served([pr EXCEPT !.listErr = TRUE], pr.out \o samples)

\* every page taken for the last one
OnPage_BreakAlways(b, pr, resp) ==
    LET prefix == pr.e.prefixes[pr.pi]
        acc == FoldPage(b, pr.acc, resp, pr.e.storageclass)
        folded == [pr EXCEPT !.acc = acc,
                             !.seen = @ \o resp.Contents,
                             !.cps = @ + resp.CommonPrefixes]
        samples == SuccessSamples(b, pr.e, prefix, acc)
    IN  IF ContentsPanic(resp.Contents, pr.e.storageclass)
        THEN [pr EXCEPT !.pc = "panicked"]
        ELSE IF SomePanics(b, samples)
        THEN [folded EXCEPT !.pc = "panicked"]
        ELSE IF pr.pi < Len(pr.e.prefixes)
        THEN [folded EXCEPT !.pc = "next", !.out = @ \o samples]
        ELSE Served(folded, pr.out \o samples)

\* the listing call returned a page
OnPage(b, pr, resp) ==
    LET prefix == pr.e.prefixes[pr.pi]
        acc == FoldPage(b, pr.acc, resp, pr.e.storageclass)
        folded == [pr EXCEPT !.acc = acc,
                             !.seen = @ \o resp.Contents,
                             !.cps = @ + resp.CommonPrefixes]
        samples == SuccessSamples(b, pr.e, prefix, acc)
    IN  IF ContentsPanic(resp.Contents, pr.e.storageclass)
        THEN [pr EXCEPT !.pc = "panicked"]
        ELSE IF resp.NextContinuationToken # NoToken
        THEN [folded EXCEPT !.pc = "listing",
                            !.token = resp.NextContinuationToken]
        ELSE IF SomePanics(b, samples)
        THEN [folded EXCEPT !.pc = "panicked"]
        ELSE IF pr.pi < Len(pr.e.prefixes)
        THEN [folded EXCEPT !.pc = "next", !.out = @ \o samples]
        ELSE Served(folded, pr.out \o samples)

AfterCall(b, pr, resp) ==
    LET called == [pr EXCEPT !.calls = @ + 1, !.pages = @ + 1]
    IN  IF resp.err THEN OnError(b, called) ELSE OnPage(b, called, resp)

\* a panic in Collect is a panic in a goroutine of the registry that nothing
\* recovers: the process ends
ListObjectsV2(p, resp) ==
    /\ alive
    /\ probe[p].pc \in {"next", "listing"}
    /\ \E after \in {AfterCall(build, AtCall(probe[p]), resp)} :
           /\ probe' = [probe EXCEPT ![p] = after]
           /\ alive' = (after.pc # "panicked")
    /\ UNCHANGED <<build, cfg>>

-----------------------------------------------------------------------------
(* discoveryHandler: the HTTP service discovery endpoint, the same in both
   builds.  A *string is a sequence of at most one string: <<>> is nil. *)

\* aws.StringValue
StringValue(ptr) == IF ptr = <<>> THEN Empty ELSE ptr[1]

\* one entry of the response, with the keys of the struct's json tags
discoveryTarget(host, name) ==
    [targets |-> <<host>>, labels |-> [k \in {"__param_bucket"} |-> name]]

\* the loop over result.Buckets, appending in listing order
RECURSIVE Targets_Prepended(_, _)
Targets_Prepended(host, buckets) ==
    IF buckets = <<>> THEN <<>>
    ELSE LET name == StringValue(Head(buckets).Name)
             rest == Targets_Prepended(host, Tail(buckets))
         IN  IF name # Empty THEN rest \o <<discoveryTarget(host, name)>>
             ELSE rest

RECURSIVE Targets(_, _)
Targets(host, buckets) ==
    IF buckets = <<>> THEN <<>>
    ELSE LET name == StringValue(Head(buckets).Name)
             rest == Targets(host, Tail(buckets))
         IN  IF name # Empty THEN <<discoveryTarget(host, name)>> \o rest
             ELSE rest

\* a discovery request: its Host header and its bucket_pattern query
\* parameter, which the handler does not read
NoDiscoveryRequest == [Host |-> "", bucket_pattern |-> Empty]

NoBuckets == [err |-> FALSE, Buckets |-> <<>>]

\* the last discovery request, the bucket listing it got and its response;
\* json.Marshal does not fail on strings, so the "error marshalling json"
\* response is never sent
IdleDiscovery ==
    [pc |-> "idle", req |-> NoDiscoveryRequest, result |-> NoBuckets,
     status |-> 0, body |-> <<>>]

DiscoveryHandler(req, result) ==
    /\ alive
    /\ disc' = IF result.err
               THEN [pc |-> "done", req |-> req, result |-> result,
                     status |-> 500, body |-> "error listing buckets"]
               ELSE [pc |-> "done", req |-> req, result |-> result,
                     status |-> 200,
                     body |-> Targets(req.Host, result.Buckets)]
    /\ UNCHANGED <<build, cfg, alive, probe>>

-----------------------------------------------------------------------------
(* The storage API: the responses a listing call may get *)

ErrorResponse ==
    [err |-> TRUE, Contents |-> <<>>, CommonPrefixes |-> 0,
     NextContinuationToken |-> NoToken]

SeqsUpTo(S, n) == UNION {[1..k -> S] : k \in 0..n}

\* the responses to the call the probe is about to make: CommonPrefixes only
\* come back for a query with a delimiter, and the listing ends within
\* maxPages pages and maxItems items
Responses(pr, items, maxItems, cpCounts, tokens, maxPages) ==
    LET at == AtCall(pr)
    IN  {ErrorResponse} \cup
        { [err |-> FALSE, Contents |-> c, CommonPrefixes |-> n,
           NextContinuationToken |-> t] :
            c \in SeqsUpTo(items, maxItems - Len(at.seen)),
            n \in (IF at.e.delimiter = "" THEN {0} ELSE cpCounts),
            t \in (IF at.pages + 1 < maxPages THEN {NoToken} \cup tokens
                   ELSE {NoToken}) }

-----------------------------------------------------------------------------
(* Spec: two probes on one process, small inputs *)

Item(t, s, c) == [LastModified |-> t, Size |-> s, StorageClass |-> c]

SmallItems == {Item(1, 1, "STANDARD"), Item(1, 1, NoClass)}

Requests ==
    { [NoRequest EXCEPT !.bucket = bk, !.delimiter = d, !.storageclass = sc] :
        bk \in {"", "b"}, d \in {"", "/"}, sc \in {"", "STANDARD"} }
    \cup { [NoRequest EXCEPT !.bucket = "b", !.prefixes = <<"a", ",", "b">>] }

\* the static configuration: the flags s3.bucket, s3.prefixes and
\* s3.storageclass, which only the "storageclass" build has
Configs(b, buckets) ==
    IF b = "storageclass"
    THEN {[NoConfig EXCEPT !.bucket = bk] : bk \in buckets}
    ELSE {NoConfig}

\* hist is the history of the listing calls of each probe; SpecCalls, SpecTwo
\* and SpecVersions record it
NoHistory == [p \in Probes |-> <<>>]

Init ==
    /\ build \in Builds
    /\ cfg \in Configs(build, {"", "c"})
    /\ alive = TRUE
    /\ probe = [p \in Probes |-> IdleProbe]
    /\ hist = NoHistory
    /\ disc = IdleDiscovery

Next ==
    \/ \E p \in Probes : \E req \in Requests :
          ProbeHandler(p, req) /\ UNCHANGED <<hist, disc>>
    \/ \E p \in Probes :
          \E resp \in Responses(probe[p], SmallItems, 1, {0, 1}, {"t"}, MaxPages) :
              ListObjectsV2(p, resp) /\ UNCHANGED <<hist, disc>>

Spec == Init /\ [][Next]_vars

-----------------------------------------------------------------------------
(* SpecFold: one probe, every listing within the bounds *)

Times == (ZeroTime - 1)..MaxTime

Sizes == 1..MaxSize

Classes == {"STANDARD", "GLACIER"}

Items == {Item(t, s, c) : t \in Times, s \in Sizes, c \in Classes}

\* the "delimiter" build never reads an item's storage class
FoldItems(b) ==
    IF b = "storageclass" THEN Items
    ELSE {i \in Items : i.StorageClass = "STANDARD"}

\* each build with and without the parameter that only it reads
FoldRequests(b) ==
    IF b = "storageclass"
    THEN { [NoRequest EXCEPT !.bucket = "b", !.storageclass = "STANDARD"],
           [NoRequest EXCEPT !.bucket = "b"] }
    ELSE { [NoRequest EXCEPT !.bucket = "b", !.delimiter = "/"],
           [NoRequest EXCEPT !.bucket = "b"] }

InitFold ==
    /\ build \in Builds
    /\ cfg = NoConfig
    /\ alive = TRUE
    /\ probe = [p \in Probes |-> IdleProbe]
    /\ hist = NoHistory
    /\ disc = IdleDiscovery

NextFold ==
    \/ \E req \in FoldRequests(build) :
          ProbeHandler("p1", req) /\ UNCHANGED <<hist, disc>>
    \/ \E resp \in Responses(probe["p1"], FoldItems(build), MaxItems,
                              0..MaxCommonPrefixes, {"t"}, MaxPages) :
          ListObjectsV2("p1", resp) /\ UNCHANGED <<hist, disc>>

SpecFold == InitFold /\ [][NextFold]_vars

-----------------------------------------------------------------------------
(* SpecCalls: one probe with the history of its listing calls; listings of
   up to MaxPages + 1 pages and one item, two continuation tokens, several
   prefixes *)

Tokens == {"t1", "t2"}

CallItems == {Item(1, 1, "STANDARD"), Item(1, 2, "GLACIER")}

\* the "storageclass" build with and without a filter and with two prefixes,
\* the "delimiter" build with and without a delimiter
CallRequests(b) ==
    IF b = "storageclass"
    THEN { [NoRequest EXCEPT !.bucket = "b", !.storageclass = "STANDARD"],
           [NoRequest EXCEPT !.bucket = "b"],
           [NoRequest EXCEPT !.bucket = "b", !.prefixes = <<"a", ",", "b">>] }
    ELSE { [NoRequest EXCEPT !.bucket = "b", !.delimiter = "/"],
           [NoRequest EXCEPT !.bucket = "b"] }

\* the listing call the probe is about to make and the response to it
Call(pr, resp) ==
    [pi |-> AtCall(pr).pi, token |-> AtCall(pr).token, resp |-> resp]

InitCalls ==
    /\ build \in Builds
    /\ cfg = NoConfig
    /\ alive = TRUE
    /\ probe = [p \in Probes |-> IdleProbe]
    /\ hist = NoHistory
    /\ disc = IdleDiscovery

\* the probe makes its next listing call and the storage API answers
RecordedCall ==
    \E resp \in Responses(probe["p1"], CallItems, 1, {0, 1}, Tokens,
                           MaxPages + 1) :
        /\ ListObjectsV2("p1", resp)
        /\ hist' = [hist EXCEPT !["p1"] = Append(@, Call(probe["p1"], resp))]
        /\ UNCHANGED disc

NextCalls ==
    \/ \E req \in CallRequests(build) :
          ProbeHandler("p1", req) /\ UNCHANGED <<hist, disc>>
    \/ RecordedCall

SpecCalls == InitCalls /\ [][NextCalls]_vars

\* the goroutine that runs Collect is scheduled as long as the process
\* lives, and every listing call returns
SpecCallsFair == SpecCalls /\ WF_vars(RecordedCall)

-----------------------------------------------------------------------------
(* What a probe has listed and reported *)

Names(samples) == {samples[i].name : i \in 1..Len(samples)}

ObjectFamily ==
    {"objects", "objects_size_sum_bytes", "biggest_object_size_bytes",
     "last_modified_object_date", "last_modified_object_size_bytes"}

\* the accumulators hold the fold of every page returned so far for the
\* current prefix
Folded(p) ==
    \/ probe[p].pc \in {"listing", "done"}
    \/ probe[p].pc = "next" /\ probe[p].pi >= 1

\* the pagination of the current prefix has completed
Completed(p) ==
    \/ probe[p].pc = "done"
    \/ probe[p].pc = "next" /\ probe[p].pi >= 1

\* the items of the current prefix's listing that the storage-class filter
\* does not exclude, in arrival order
Counted(p) ==
    SelectSeq(probe[p].seen,
              LAMBDA i : probe[p].e.storageclass = ""
                         \/ i.StorageClass = probe[p].e.storageclass)

RECURSIVE SumSizes(_)
SumSizes(items) ==
    IF items = <<>> THEN 0 ELSE Head(items).Size + SumSizes(Tail(items))

MaxOf(S) == CHOOSE m \in S : \A x \in S : x <= m

SizesOf(items) == {items[i].Size : i \in 1..Len(items)}

TimesOf(items) == {items[i].LastModified : i \in 1..Len(items)}

\* the positions of the items carrying the latest timestamp
Latest(items) ==
    {i \in 1..Len(items) : items[i].LastModified = MaxOf(TimesOf(items))}

Earliest(I) == CHOOSE i \in I : \A j \in I : i <= j

\* the rearrangements of a sequence
Rearrangements(items) ==
    LET n == Len(items)
        perms == {f \in [1..n -> 1..n] : \A i, j \in 1..n : f[i] = f[j] => i = j}
    IN  {[k \in 1..n |-> items[f[k]]] : f \in perms}

-----------------------------------------------------------------------------
(* Claims *)

\* C1: when a listing call of a probe returns an error, the probe's response
\* contains list_success with value 0 and none of the object-count, size-sum,
\* biggest-size, last-modified or common-prefix metrics.
C1_ListErrorReportsFailure ==
    \A p \in Probes :
        probe[p].listErr =>
            /\ \E i \in 1..Len(probe[p].body) :
                   /\ probe[p].body[i].name = "list_success"
                   /\ probe[p].body[i].value = 0
            /\ Names(probe[p].body) \cap (ObjectFamily \cup {"common_prefixes"}) = {}

\* C2: a listing error in one probe is never fatal to the process: the
\* process keeps running, so every other probe can still be served.
C2_ListErrorNotFatal ==
    \A p \in Probes : probe[p].listErr => alive

\* C3 as stated: a probe request whose bucket parameter is missing or empty
\* is rejected with 400 before any aggregation and makes no listing call.
C3_MissingBucketRejected ==
    \A p \in Probes :
        probe[p].pc # "idle" /\ probe[p].req.bucket = "" =>
            /\ probe[p].pc = "rejected"
            /\ probe[p].status = 400
            /\ probe[p].calls = 0

\* C3 as amended: a probe request whose bucket parameter is missing or empty
\* is rejected with 400 before any aggregation and makes no listing call,
\* unless a bucket is statically configured.
C3_MissingBucketRejectedUnlessStatic ==
    \A p \in Probes :
        probe[p].pc # "idle" /\ probe[p].req.bucket = "" /\ cfg.bucket = "" =>
            /\ probe[p].pc = "rejected"
            /\ probe[p].status = 400
            /\ probe[p].calls = 0
            /\ probe[p].acc = ZeroAcc
            /\ probe[p].out = <<>>

C3_Witness ==
    \E p \in Probes :
        probe[p].pc = "rejected" /\ probe[p].req.bucket = "" /\ probe[p].status = 400

C5_ObjectCount ==
    \A p \in Probes :
        Completed(p) => probe[p].acc.numberOfObjects = Len(Counted(p))

C5_Witness ==
    \E p \in Probes :
        /\ Completed(p) /\ probe[p].pages = 2
        /\ probe[p].e.storageclass # ""
        /\ Len(Counted(p)) = 1 /\ Len(probe[p].seen) = 2

\* C6: after a pagination run completes, totalSizeBytes is the sum of the
\* sizes of the counted items and biggestSizeBytes their maximum, 0 when no
\* item was counted.
C6_SumAndBiggest ==
    \A p \in Probes :
        Completed(p) =>
            /\ probe[p].acc.totalSize = SumSizes(Counted(p))
            /\ probe[p].acc.biggestObjectSize =
                  IF Counted(p) = <<>> THEN 0 ELSE MaxOf(SizesOf(Counted(p)))

C6_Witness ==
    \E p \in Probes :
        /\ Completed(p) /\ probe[p].pages = 2
        /\ Len(Counted(p)) = 2
        /\ Counted(p)[1].Size > Counted(p)[2].Size
        /\ probe[p].acc.totalSize = 3 /\ probe[p].acc.biggestObjectSize = 2

\* C7 as stated: once at least one item is counted, lastModified is the
\* latest timestamp of the counted items and lastModifiedSizeBytes is the
\* size of an item carrying it, whatever the timestamps are.
C7_LastModifiedIsLatest ==
    \A p \in Probes :
        Folded(p) /\ Counted(p) # <<>> =>
            /\ probe[p].acc.lastModified = MaxOf(TimesOf(Counted(p)))
            /\ \E i \in Latest(Counted(p)) :
                   Counted(p)[i].Size = probe[p].acc.lastObjectSize

\* C7 as amended: once a counted item carries a timestamp strictly after the
\* zero value, lastModified is the latest timestamp of the counted items and
\* lastModifiedSizeBytes is the size of an item carrying it; while no
\* counted item does, lastModified stays the zero value and
\* lastModifiedSizeBytes stays 0.
C7_LastModifiedIsLatestAfterZero ==
    \A p \in Probes :
        Folded(p) =>
            IF \E t \in TimesOf(Counted(p)) : t > ZeroTime
            THEN /\ probe[p].acc.lastModified = MaxOf(TimesOf(Counted(p)))
                 /\ \E i \in Latest(Counted(p)) :
                        Counted(p)[i].Size = probe[p].acc.lastObjectSize
            ELSE /\ probe[p].acc.lastModified = ZeroTime
                 /\ probe[p].acc.lastObjectSize = 0

\* a later item on the first page, an earlier one on the second
C7_Witness ==
    \E p \in Probes :
        /\ Folded(p) /\ probe[p].pages = 2
        /\ Len(Counted(p)) = 2
        /\ Counted(p)[1].LastModified > Counted(p)[2].LastModified
        /\ Counted(p)[1].LastModified > ZeroTime
        /\ probe[p].acc.lastModified = Counted(p)[1].LastModified

\* C8 as stated: when several counted items share the latest timestamp,
\* lastModifiedSizeBytes is the size of the earliest-seen of them.
C8_TieKeepsEarliest ==
    \A p \in Probes :
        Folded(p) /\ Cardinality(Latest(Counted(p))) >= 2 =>
            probe[p].acc.lastObjectSize =
                Counted(p)[Earliest(Latest(Counted(p)))].Size

\* C8 as amended: when several counted items share the latest timestamp and
\* that timestamp is strictly after the zero value, lastModifiedSizeBytes is
\* the size of the earliest-seen of them.
C8_TieKeepsEarliestAfterZero ==
    \A p \in Probes :
        /\ Folded(p)
        /\ Cardinality(Latest(Counted(p))) >= 2
        /\ MaxOf(TimesOf(Counted(p))) > ZeroTime
        => probe[p].acc.lastObjectSize =
               Counted(p)[Earliest(Latest(Counted(p)))].Size

C8_Witness ==
    \E p \in Probes :
        /\ Folded(p)
        /\ Len(Counted(p)) = 2
        /\ Counted(p)[1].LastModified = Counted(p)[2].LastModified
        /\ Counted(p)[1].LastModified > ZeroTime
        /\ Counted(p)[1].Size < Counted(p)[2].Size
        /\ probe[p].acc.lastObjectSize = Counted(p)[1].Size

\* the accumulators of a pagination run that returns the given items
Run(items, storageclass) == FoldContents(ZeroAcc, items, storageclass)

TiedSizesAgree(items) ==
    \A i, j \in Latest(items) : items[i].Size = items[j].Size

C10_CommonPrefixCount ==
    \A p \in Probes :
        Folded(p) => probe[p].acc.commonPrefixes = probe[p].cps

C10_Witness ==
    \E p \in Probes :
        /\ Completed(p) /\ probe[p].pages = 2
        /\ probe[p].seen # <<>>
        /\ probe[p].cps = 3 /\ probe[p].acc.commonPrefixes = 3

-----------------------------------------------------------------------------
(* SpecTwo: two probes on one process with the history of their listing
   calls, small inputs *)

TwoRequests(b) ==
    IF b = "storageclass"
    THEN { [NoRequest EXCEPT !.bucket = "b", !.prefix = <<"a">>],
           [NoRequest EXCEPT !.bucket = "b", !.storageclass = "STANDARD"] }
    ELSE { [NoRequest EXCEPT !.bucket = "b", !.prefix = <<"a">>],
           [NoRequest EXCEPT !.bucket = "b", !.delimiter = "/"] }

NextTwo ==
    \/ \E p \in Probes : \E req \in TwoRequests(build) :
          ProbeHandler(p, req) /\ UNCHANGED <<hist, disc>>
    \/ \E p \in Probes :
          \E resp \in Responses(probe[p], CallItems, 1, {0, 1}, {"t"}, MaxPages) :
              /\ ListObjectsV2(p, resp)
              /\ hist' = [hist EXCEPT ![p] = Append(@, Call(probe[p], resp))]
              /\ UNCHANGED disc

SpecTwo == InitCalls /\ [][NextTwo]_vars

-----------------------------------------------------------------------------
(* The version-aware Lister.  Its code is not among the sources; it is
   modelled from the design: a "list all object versions" query whose
   continuation echoes the key marker and the version-id marker of the
   previous page and which ends when the truncation flag is false.  Folding,
   output and the error path are those of Exporter.Collect. *)

\* an object version: an item with its is-latest flag
Version(t, s, latest) == Item(t, s, "STANDARD") @@ [IsLatest |-> latest]

\* only the latest version of each key counted
CountedVersions_LatestOnly(versions) ==
    SelectSeq(versions, LAMBDA v : v.IsLatest)

\* the versions of a page that are folded: all of them
CountedVersions(versions) == versions

\* the version-id marker not echoed
NextMarkers_KeyOnly(resp) ==
    [keyMarker |-> resp.NextKeyMarker, versionIdMarker |-> NoToken]

\* the cursor for the call after a truncated page
NextMarkers(resp) ==
    [keyMarker |-> resp.NextKeyMarker,
     versionIdMarker |-> resp.NextVersionIdMarker]

\* a probe slot of the version-aware variant: the query also holds the two
\* markers
IdleVersionProbe ==
    IdleProbe @@ [keyMarker |-> NoToken, versionIdMarker |-> NoToken]

\* the probe at its listing call: a new prefix starts without markers
AtVersionsCall(pr) ==
    IF pr.pc = "next"
    THEN [AtCall(pr) EXCEPT !.keyMarker = NoToken, !.versionIdMarker = NoToken]
    ELSE pr

\* the listing call returned a page of versions
OnVersionsPage(b, pr, resp) ==
    LET prefix == pr.e.prefixes[pr.pi]
        versions == CountedVersions(resp.Versions)
        acc == FoldContents(pr.acc, versions, pr.e.storageclass)
        folded == [pr EXCEPT !.acc = acc, !.seen = @ \o resp.Versions]
        samples == SuccessSamples(b, pr.e, prefix, acc)
    IN  IF ContentsPanic(versions, pr.e.storageclass)
        THEN [pr EXCEPT !.pc = "panicked"]
        ELSE IF resp.IsTruncated
        THEN [folded EXCEPT !.pc = "listing",
                            !.keyMarker = NextMarkers(resp).keyMarker,
                            !.versionIdMarker = NextMarkers(resp).versionIdMarker]
        ELSE IF SomePanics(b, samples)
        THEN [folded EXCEPT !.pc = "panicked"]
        ELSE IF pr.pi < Len(pr.e.prefixes)
        THEN [folded EXCEPT !.pc = "next", !.out = @ \o samples]
        ELSE Served(folded, pr.out \o samples)

AfterVersionsCall(b, pr, resp) ==
    LET called == [pr EXCEPT !.calls = @ + 1, !.pages = @ + 1]
    IN  IF resp.err THEN OnError(b, called) ELSE OnVersionsPage(b, called, resp)

ListObjectVersions(p, resp) ==
    /\ alive
    /\ probe[p].pc \in {"next", "listing"}
    /\ \E after \in {AfterVersionsCall(build, AtVersionsCall(probe[p]), resp)} :
           /\ probe' = [probe EXCEPT ![p] = after]
           /\ alive' = (after.pc # "panicked")
    /\ UNCHANGED <<build, cfg>>

VersionsError ==
    [err |-> TRUE, Versions |-> <<>>, IsTruncated |-> FALSE,
     NextKeyMarker |-> NoToken, NextVersionIdMarker |-> NoToken]

\* the responses to the call the probe is about to make: a truncated page
\* carries both markers, the last page none
VersionsResponses(pr, versions, maxVersions, keys, ids, maxPages) ==
    LET at == AtVersionsCall(pr)
        contents == SeqsUpTo(versions, maxVersions - Len(at.seen))
    IN  {VersionsError}
        \cup { [err |-> FALSE, Versions |-> c, IsTruncated |-> FALSE,
                NextKeyMarker |-> NoToken, NextVersionIdMarker |-> NoToken] :
                 c \in contents }
        \cup (IF at.pages + 1 < maxPages
              THEN { [err |-> FALSE, Versions |-> c, IsTruncated |-> TRUE,
                      NextKeyMarker |-> k, NextVersionIdMarker |-> v] :
                       c \in contents, k \in keys, v \in ids }
              ELSE {})

-----------------------------------------------------------------------------
(* SpecVersions: one probe of the version-aware variant with the history of
   its listing calls *)

\* two versions of one key: the earlier of 2345 bytes, the later, which is
\* the latest, of 1234 bytes
VersionItems == {Version(1, 2345, FALSE), Version(2, 1234, TRUE)}

KeyMarkers == {"k1", "k2"}

VersionIdMarkers == {"v1", "v2"}

VersionsCall(pr, resp) ==
    [pi |-> AtVersionsCall(pr).pi,
     keyMarker |-> AtVersionsCall(pr).keyMarker,
     versionIdMarker |-> AtVersionsCall(pr).versionIdMarker,
     resp |-> resp]

InitVersions ==
    /\ build \in Builds
    /\ cfg = NoConfig
    /\ alive = TRUE
    /\ probe = [p \in Probes |-> IdleVersionProbe]
    /\ hist = NoHistory
    /\ disc = IdleDiscovery

NextVersions ==
    \/ ProbeHandler("p1", [NoRequest EXCEPT !.bucket = "b"]) /\ UNCHANGED <<hist, disc>>
    \/ \E resp \in VersionsResponses(probe["p1"], VersionItems, 2, KeyMarkers,
                                      VersionIdMarkers, MaxPages + 1) :
          /\ ListObjectVersions("p1", resp)
          /\ hist' = [hist EXCEPT !["p1"] =
                         Append(@, VersionsCall(probe["p1"], resp))]
          /\ UNCHANGED disc

SpecVersions == InitVersions /\ [][NextVersions]_vars

-----------------------------------------------------------------------------
(* Claims about the listing calls *)

\* the probe as probeHandler leaves it for an Exporter e
Started(req, e) == [IdleProbe EXCEPT !.pc = "next", !.req = req, !.e = e]

\* the responses of a history, in call order
ResponsesOf(h) == [k \in 1..Len(h) |-> h[k].resp]

\* the listing calls that a probe makes when the storage API answers with
\* the given responses, as far as it consumes them
RECURSIVE CallsOn(_, _, _)
CallsOn(b, pr, resps) ==
    IF resps = <<>> \/ pr.pc \notin {"next", "listing"} THEN <<>>
    ELSE <<Call(pr, Head(resps))>>
         \o CallsOn(b, AfterCall(b, AtCall(pr), Head(resps)), Tail(resps))

\* the probe after those calls
RECURSIVE Replay(_, _, _)
Replay(b, pr, resps) ==
    IF resps = <<>> \/ pr.pc \notin {"next", "listing"} THEN pr
    ELSE Replay(b, AfterCall(b, AtCall(pr), Head(resps)), Tail(resps))

\* the Exporter without its storage-class filter
Unfiltered(e) == [e EXCEPT !.storageclass = ""]

\* the items of a sequence whose storage class is the given one
OfClass(items, class) == SelectSeq(items, LAMBDA i : i.StorageClass = class)

\* C11: with a storage-class filter, the items whose storage class differs
\* from it change no accumulator field: the accumulators are those of the
\* listing with these items removed.  Pagination is unaffected: the probe
\* makes the same listing calls, with the same continuation tokens, as a
\* probe without the filter makes on the same responses, and stops or goes on
\* at the same point.
C11_FilterLeavesPagination ==
    \A p \in Probes :
        probe[p].e.storageclass # "" /\ probe[p].pc \in {"listing", "next", "done"} =>
            /\ Folded(p) =>
                  probe[p].acc =
                     Run(OfClass(probe[p].seen, probe[p].e.storageclass), "")
            /\ hist[p] = CallsOn(build,
                                 Started(probe[p].req, Unfiltered(probe[p].e)),
                                 ResponsesOf(hist[p]))
            /\ Replay(build, Started(probe[p].req, Unfiltered(probe[p].e)),
                      ResponsesOf(hist[p])).pc = probe[p].pc

\* a filtered probe that listed a differing item on its first page and went
\* on to the third page with the tokens returned
C11_Witness ==
    \E p \in Probes :
        /\ probe[p].pc = "done" /\ probe[p].e.storageclass = "STANDARD"
        /\ Len(hist[p]) = 3
        /\ hist[p][1].resp.Contents = <<Item(1, 2, "GLACIER")>>
        /\ hist[p][2].token = "t1" /\ hist[p][3].token = "t2"
        /\ probe[p].acc = ZeroAcc

\* a page with zero items and zero common prefixes
EmptyPage(resp) ==
    ~resp.err /\ resp.Contents = <<>> /\ resp.CommonPrefixes = 0

Front(h) == SubSeq(h, 1, Len(h) - 1)

\* the probe at its latest listing call, before the response to it
BeforeLast(p) ==
    AtCall(Replay(build, Started(probe[p].req, probe[p].e),
                  ResponsesOf(Front(hist[p]))))

\* C12: folding a page with zero items and zero common prefixes leaves every
\* field of the accumulators as it was before the page, so folding such a
\* page once more changes nothing either.
C12_EmptyPageChangesNothing ==
    \A p \in Probes :
        /\ probe[p].pc \in {"listing", "next", "done"}
        /\ hist[p] # <<>>
        /\ EmptyPage(hist[p][Len(hist[p])].resp)
        => LET last == hist[p][Len(hist[p])].resp
               again == FoldPage(build, probe[p].acc, last, probe[p].e.storageclass)
           IN  /\ probe[p].acc = BeforeLast(p).acc
               /\ again = probe[p].acc
               /\ FoldPage(build, again, last, probe[p].e.storageclass) = again

\* a page with an item and a common prefix, then two empty pages
C12_Witness ==
    \E p \in Probes :
        /\ probe[p].pc = "done" /\ probe[p].e.delimiter # ""
        /\ Len(hist[p]) = 3
        /\ EmptyPage(hist[p][2].resp) /\ EmptyPage(hist[p][3].resp)
        /\ probe[p].acc.numberOfObjects = 1 /\ probe[p].acc.commonPrefixes = 1

\* the values that the samples of a metric carry
ValuesOf(samples, name) ==
    {samples[i].value : i \in {j \in 1..Len(samples) : samples[j].name = name}}

\* -6795364578
ZeroTimeSentinel ==
    [neg |-> TRUE, mag |-> FromDecimal(<<6, 7, 9, 5, 3, 6, 4, 5, 7, 8>>)]

\* C13: a probe without a delimiter whose listing succeeds and returns no
\* item reports list_success 1, objects 0, objects_size_sum_bytes 0,
\* biggest_object_size_bytes 0, last_modified_object_size_bytes 0 and
\* last_modified_object_date -6795364578, the rendering of the zero time.
C13_EmptyListing ==
    \A p \in Probes :
        /\ probe[p].pc = "done" /\ probe[p].status = 200
        /\ probe[p].e.delimiter = ""
        /\ probe[p].seen = <<>>
        => /\ ValuesOf(probe[p].body, "list_success") = {1}
           /\ ValuesOf(probe[p].body, "objects") = {0}
           /\ ValuesOf(probe[p].body, "objects_size_sum_bytes") = {0}
           /\ ValuesOf(probe[p].body, "biggest_object_size_bytes") = {0}
           /\ ValuesOf(probe[p].body, "last_modified_object_size_bytes") = {0}
           /\ ValuesOf(probe[p].body, "last_modified_object_date")
                 = {ZeroTimeSentinel}

\* a listing of two pages without an item
C13_Witness ==
    \E p \in Probes :
        /\ probe[p].pc = "done" /\ probe[p].status = 200
        /\ probe[p].e.delimiter = ""
        /\ probe[p].seen = <<>> /\ probe[p].pages = 2
        /\ ZeroTimeSentinel \in ValuesOf(probe[p].body, "last_modified_object_date")

\* the response ends the pagination of its prefix: an error, or a page
\* without a continuation token
Ends(resp) == resp.err \/ resp.NextContinuationToken = NoToken

\* the probe is inside the pagination loop of its i-th prefix
InLoop(p, i) == probe[p].pc = "listing" /\ probe[p].pi = i

\* the pagination loop of each prefix has gone on after every response that
\* does not end it and has made no call after one that does
StopsAtFirstEnd(p) ==
    /\ \A k \in 1..(Len(hist[p]) - 1) :
           hist[p][k + 1].pi = hist[p][k].pi <=> ~Ends(hist[p][k].resp)
    /\ hist[p] # <<>> =>
           (probe[p].pc = "listing" <=> ~Ends(hist[p][Len(hist[p])].resp))

\* C14: when the storage API eventually returns a page without a
\* continuation token or an error, the pagination loop of a prefix ends after
\* finitely many listing calls; it ends at the first such response and not
\* before.
C14_PaginationTerminates ==
    /\ [](\A p \in Probes : StopsAtFirstEnd(p))
    /\ \A i \in 1..2 : InLoop("p1", i) ~> ~InLoop("p1", i)

\* a pagination that ended at its third call
C14_Witness ==
    \E p \in Probes :
        /\ probe[p].pc = "done" /\ Len(hist[p]) = 3
        /\ ~Ends(hist[p][1].resp) /\ ~Ends(hist[p][2].resp)
        /\ Ends(hist[p][3].resp) /\ ~hist[p][3].resp.err

\* the k-th call of the history is the first call for its prefix
FirstOfPrefix(h, k) == k = 1 \/ h[k].pi # h[k - 1].pi

\* C15: the first listing call for a prefix carries no continuation token,
\* every later call carries the token that the response to the call before it
\* returned, and after a page the pagination goes on exactly when the page
\* returned a token.
C15_TokenChain ==
    \A p \in Probes :
        /\ \A k \in 1..Len(hist[p]) :
               IF FirstOfPrefix(hist[p], k)
               THEN hist[p][k].token = NoToken
               ELSE /\ hist[p][k].token = hist[p][k - 1].resp.NextContinuationToken
                    /\ hist[p][k].token # NoToken
        /\ \A k \in 1..(Len(hist[p]) - 1) :
               ~hist[p][k].resp.err =>
                   (hist[p][k].resp.NextContinuationToken = NoToken
                       <=> FirstOfPrefix(hist[p], k + 1))
        /\ hist[p] # <<>> /\ ~hist[p][Len(hist[p])].resp.err =>
               (hist[p][Len(hist[p])].resp.NextContinuationToken = NoToken
                   <=> probe[p].pc # "listing")

\* two prefixes: the first listed with the tokens t2 and then t1, the second
\* begun without a token
C15_Witness ==
    \E p \in Probes :
        /\ Len(hist[p]) = 4
        /\ hist[p][1].resp.NextContinuationToken = "t2"
        /\ hist[p][2].token = "t2"
        /\ hist[p][2].resp.NextContinuationToken = "t1"
        /\ hist[p][3].token = "t1"
        /\ hist[p][3].resp.NextContinuationToken = NoToken
        /\ hist[p][4].pi = 2 /\ hist[p][4].token = NoToken

\* the items of the pages that a history holds for the i-th prefix
RECURSIVE ContentsOf(_, _)
ContentsOf(h, i) ==
    IF h = <<>> THEN <<>>
    ELSE (IF Head(h).pi = i THEN Head(h).resp.Contents ELSE <<>>)
         \o ContentsOf(Tail(h), i)

\* every page is fetched by one call and folded once, and a failed call is
\* the last call of the probe
OneCallPerPage(p) ==
    /\ probe[p].calls = Len(hist[p])
    /\ probe[p].pc \in {"listing", "next", "done"} =>
           probe[p].seen = ContentsOf(hist[p], probe[p].pi)
    /\ \A k \in 1..(Len(hist[p]) - 1) : ~hist[p][k].resp.err
    /\ hist[p] # <<>> /\ hist[p][Len(hist[p])].resp.err =>
           probe[p].pc \in {"done", "panicked"}

\* C16 as stated: a probe paginates one listing: one call per page, a
\* failed call is not retried, and no call follows an error or a last page.
C16_OneListing ==
    \A p \in Probes :
        /\ OneCallPerPage(p)
        /\ \A k \in 1..(Len(hist[p]) - 1) : ~Ends(hist[p][k].resp)
        /\ hist[p] # <<>> /\ Ends(hist[p][Len(hist[p])].resp) =>
               probe[p].pc \in {"done", "panicked"}

\* C16 as amended: a probe paginates one listing for each of its prefixes,
\* in order: one call per page, a failed call is not retried, no call follows
\* an error, and the only call that follows the last page of a listing is
\* the first call for the next prefix; the probe ends when the listing of
\* its last prefix does.
C16_OneListingPerPrefix ==
    \A p \in Probes :
        /\ OneCallPerPage(p)
        /\ \A k \in 1..Len(hist[p]) :
               /\ hist[p][k].pi \in 1..Len(probe[p].e.prefixes)
               /\ hist[p][k].pi =
                     IF k = 1 THEN 1
                     ELSE IF Ends(hist[p][k - 1].resp) THEN hist[p][k - 1].pi + 1
                     ELSE hist[p][k - 1].pi
        /\ hist[p] # <<>> /\ Ends(hist[p][Len(hist[p])].resp) =>
               IF \/ hist[p][Len(hist[p])].resp.err
                  \/ hist[p][Len(hist[p])].pi = Len(probe[p].e.prefixes)
               THEN probe[p].pc \in {"done", "panicked"}
               ELSE probe[p].pc = "next"

\* two prefixes listed to the end, the first in two pages
C16_Witness ==
    \E p \in Probes :
        /\ probe[p].pc = "done" /\ Len(probe[p].e.prefixes) = 2
        /\ Len(hist[p]) = 3
        /\ hist[p][1].pi = 1 /\ hist[p][2].pi = 1 /\ hist[p][3].pi = 2
        /\ \A k \in 1..3 : ~hist[p][k].resp.err

\* the probe that serves the request alone, after the given responses
Alone(req, resps) ==
    Replay(build, Started(req, NewExporter(build, req, cfg)), resps)

C18_SuccessAndDurationAlways ==
    \A p \in Probes :
        probe[p].calls >= 1 /\ probe[p].pc \in {"done", "panicked"} =>
            /\ {"list_success", "list_duration_seconds"} \subseteq Names(probe[p].body)
            /\ probe[p].listErr =>
                   Names(probe[p].body) = {"list_success", "list_duration_seconds"}

\* C19: in version mode every version that the listing returns is counted,
\* whatever its is-latest flag: the two versions of 2345 bytes (earlier) and
\* 1234 bytes (later, the latest) give objects 2, size sum 3579, biggest size
\* 2345 and the last-modified date and size of the later version, 1234.
C19_EveryVersionCounted ==
    \A p \in Probes :
        /\ Folded(p) => probe[p].acc.numberOfObjects = Len(probe[p].seen)
        /\ /\ probe[p].pc = "done" /\ ~probe[p].listErr
           /\ Len(probe[p].seen) = 2
           /\ {probe[p].seen[1], probe[p].seen[2]} = VersionItems
           => /\ probe[p].acc.numberOfObjects = 2
              /\ probe[p].acc.totalSize = 3579
              /\ probe[p].acc.biggestObjectSize = 2345
              /\ probe[p].acc.lastModified = 2
              /\ probe[p].acc.lastObjectSize = 1234

\* the later version listed on the first page, the earlier one on the second
C19_Witness ==
    \E p \in Probes :
        /\ probe[p].pc = "done" /\ probe[p].status = 200
        /\ Len(hist[p]) = 2
        /\ hist[p][1].resp.Versions = <<Version(2, 1234, TRUE)>>
        /\ hist[p][2].resp.Versions = <<Version(1, 2345, FALSE)>>
        /\ probe[p].acc.numberOfObjects = 2 /\ probe[p].acc.lastObjectSize = 1234

\* C20: in version mode the first listing call for a prefix carries no
\* marker, every later call carries the key marker and the version-id marker
\* that the page before it returned, both from that page, and after a page
\* the pagination goes on exactly when the page's truncation flag is true.
C20_MarkerPairEchoed ==
    \A p \in Probes :
        /\ \A k \in 1..Len(hist[p]) :
               IF FirstOfPrefix(hist[p], k)
               THEN /\ hist[p][k].keyMarker = NoToken
                    /\ hist[p][k].versionIdMarker = NoToken
               ELSE /\ hist[p][k].keyMarker = hist[p][k - 1].resp.NextKeyMarker
                    /\ hist[p][k].versionIdMarker
                          = hist[p][k - 1].resp.NextVersionIdMarker
        /\ \A k \in 1..(Len(hist[p]) - 1) :
               ~hist[p][k].resp.err =>
                   (hist[p][k].resp.IsTruncated <=> ~FirstOfPrefix(hist[p], k + 1))
        /\ hist[p] # <<>> /\ ~hist[p][Len(hist[p])].resp.err =>
               (hist[p][Len(hist[p])].resp.IsTruncated <=> probe[p].pc = "listing")

\* three pages: the second call echoes (k1, v2), the third (k2, v1)
C20_Witness ==
    \E p \in Probes :
        /\ probe[p].pc = "done" /\ Len(hist[p]) = 3
        /\ hist[p][2].keyMarker = "k1" /\ hist[p][2].versionIdMarker = "v2"
        /\ hist[p][3].keyMarker = "k2" /\ hist[p][3].versionIdMarker = "v1"
        /\ ~hist[p][3].resp.IsTruncated

-----------------------------------------------------------------------------
(* SpecDiscovery: discovery requests against every bucket listing within
   the bounds *)

Bucket(ptr) == [Name |-> ptr]

\* the Name of a bucket: nil, a pointer to "" or a pointer to a name
BucketNames == {<<>>, <<Empty>>, <<<<"a">>>>, <<<<"a", "b">>>>, <<<<"b">>>>}

\* what ListBuckets may return: an error or up to MaxBuckets buckets
ListBucketsResults ==
    {[err |-> TRUE, Buckets |-> <<>>]} \cup
    { [err |-> FALSE, Buckets |-> bs] :
        bs \in SeqsUpTo({Bucket(n) : n \in BucketNames}, MaxBuckets) }

DiscoveryRequests ==
    { [Host |-> h, bucket_pattern |-> pat] :
        h \in {"h1:9340", "h2:9340"},
        pat \in {Empty, <<"a", "*">>, <<"?">>, <<"b">>} }

NextDiscovery ==
    \E req \in DiscoveryRequests : \E result \in ListBucketsResults :
        DiscoveryHandler(req, result) /\ UNCHANGED hist

SpecDiscovery == InitCalls /\ [][NextDiscovery]_vars

-----------------------------------------------------------------------------
(* Claims about the discovery endpoint *)

\* the buckets of a listing that carry a non-empty name
Named(buckets) ==
    SelectSeq(buckets, LAMBDA b : b.Name # <<>> /\ b.Name[1] # Empty)

\* the response body lists exactly these buckets, in this order, each with
\* the request's Host as its only target and its name as the only label
ListsExactly(d, buckets) ==
    /\ Len(d.body) = Len(buckets)
    /\ \A i \in 1..Len(buckets) :
          /\ d.body[i].targets = <<d.req.Host>>
          /\ DOMAIN d.body[i].labels = {"__param_bucket"}
          /\ d.body[i].labels["__param_bucket"] = StringValue(buckets[i].Name)

\* C21: a successful discovery response has one target entry for every
\* bucket of the bucket listing, in listing order, with the request's Host as
\* the target and the bucket's name in __param_bucket, and no other entry
C21_EveryBucketIsATarget ==
    disc.status = 200 => ListsExactly(disc, disc.result.Buckets)

\* C21, amended: a successful discovery response has one target entry for
\* every bucket of the listing that has a non-empty name, in listing order,
\* with the request's Host as the target and the bucket's name in
\* __param_bucket, and no other entry; a bucket without a name is left out
C21_EveryNamedBucketIsATarget ==
    disc.status = 200 => ListsExactly(disc, Named(disc.result.Buckets))

C21_Witness ==
    /\ disc.status = 200
    /\ disc.req.Host = "h2:9340"
    /\ disc.result.Buckets = <<Bucket(<<<<"b">>>>), Bucket(<<<<"a">>>>)>>
    /\ Len(disc.body) = 2
    /\ disc.body[1].labels["__param_bucket"] = <<"b">>

\* path.Match for patterns of literal characters, "?" and "*"
RECURSIVE Match(_, _)
Match(pattern, name) ==
    IF pattern = <<>> THEN name = <<>>
    ELSE IF Head(pattern) = "*"
         THEN \/ Match(Tail(pattern), name)
              \/ name # <<>> /\ Match(pattern, Tail(name))
         ELSE /\ name # <<>>
              /\ Head(pattern) \in {"?", Head(name)}
              /\ Match(Tail(pattern), Tail(name))

\* C22: a successful response to a discovery request with a bucket_pattern
\* lists exactly the buckets of the listing whose name matches the pattern
C22_OnlyMatchingBuckets ==
    (disc.status = 200 /\ disc.req.bucket_pattern # Empty) =>
        ListsExactly(disc,
            SelectSeq(Named(disc.result.Buckets),
                      LAMBDA b : Match(disc.req.bucket_pattern, b.Name[1])))

-----------------------------------------------------------------------------
(* Claims about the storage-class filter and the samples *)

\* the items of a page that carry a storage class
WithClass(contents) == SelectSeq(contents, LAMBDA i : i.StorageClass # NoClass)

\* C23: when a probe with a storage-class filter gets a page with an item
\* that carries no storage class, the item is skipped without effect on the
\* accumulators and the fold goes on: the accumulators are those of the page
\* without the item, and the probe goes on to its next page, its next
\* prefix or its response
C23_NoClassItemSkipped ==
    [][\A p \in Probes :
          \A resp \in Responses(probe[p], SmallItems, 1, {0, 1}, {"t"},
                                MaxPages) :
              ( /\ ListObjectsV2(p, resp)
                /\ ~resp.err
                /\ probe[p].e.storageclass # ""
                /\ WithClass(resp.Contents) # resp.Contents )
              => /\ alive'
                 /\ probe'[p].pc \in {"listing", "next", "done"}
                 /\ probe'[p].acc =
                        FoldContents(AtCall(probe[p]).acc,
                                     WithClass(resp.Contents),
                                     probe[p].e.storageclass)]_vars

\* the samples that Collect may construct after the listing call the probe
\* is about to make: those of the error path and those of the success path
Constructible(p) ==
    LET at == AtCall(probe[p])
        prefix == at.e.prefixes[at.pi]
    IN  { FailureSamples(at.e, prefix) } \cup
        { SuccessSamples(build, at.e, prefix,
                         FoldPage(build, at.acc, resp, at.e.storageclass)) :
            resp \in { r \in Responses(probe[p], SmallItems, 1, {0, 1}, {"t"},
                                       MaxPages) :
                         ~r.err /\ WithClass(r.Contents) = r.Contents } }

\* C24: every sample that Collect constructs, on the success path and on the
\* listing-error path, has as many label values as its descriptor declares
\* label names
C24_LabelCountsMatch ==
    \A p \in Probes :
        probe[p].pc \in {"next", "listing"} =>
            \A samples \in Constructible(p) :
                \A i \in 1..Len(samples) :
                    Len(samples[i].labels)
                        = Len(DescLabels(build, samples[i].name))

-----------------------------------------------------------------------------
(* Claims about probes over several prefixes *)

\* the samples emitted so far hold the full metric set of a listed prefix
FullSetEmitted(pr, prefix) ==
    /\ \A name \in {"list_success", "list_duration_seconds"} \cup ObjectFamily :
          \E j \in 1..Len(pr.out) :
              /\ pr.out[j].name = name
              /\ pr.out[j].labels = Labels(pr.e, prefix)
    /\ \E j \in 1..Len(pr.out) :
          /\ pr.out[j].name = "list_success"
          /\ pr.out[j].labels = Labels(pr.e, prefix)
          /\ pr.out[j].value = 1

\* C25: once the listing of one prefix of a probe has failed, no listing
\* call is made and no sample is emitted for any prefix after it, and every
\* prefix before it has had its full metric set emitted
C25_StopsAtFailingPrefix ==
    \A p \in Probes : \A i \in 1..Len(hist[p]) :
        hist[p][i].resp.err =>
            LET pr == probe[p]
                failing == hist[p][i].pi
            IN  /\ \A j \in 1..Len(hist[p]) : hist[p][j].pi <= failing
                /\ \A k \in (failing + 1)..Len(pr.e.prefixes) :
                      \A j \in 1..Len(pr.out) :
                          pr.out[j].labels[2] # pr.e.prefixes[k]
                /\ \A k \in 1..(failing - 1) :
                      FullSetEmitted(pr, pr.e.prefixes[k])

C25_Witness ==
    \E p \in Probes :
        /\ Len(probe[p].e.prefixes) = 2
        /\ Len(hist[p]) = 3
        /\ hist[p][1].pi = 1 /\ ~hist[p][1].resp.err
        /\ hist[p][2].pi = 1 /\ ~hist[p][2].resp.err
        /\ hist[p][3].pi = 2 /\ hist[p][3].resp.err
        /\ FullSetEmitted(probe[p], <<"a">>)
        /\ Len(probe[p].out) = 7

-----------------------------------------------------------------------------
(* SpecPrefixes: one probe of the "storageclass" build, every combination
   of query parameters and static configuration, listings of one page *)

PrefixLists == {Empty, <<"a", ",", "a">>, <<"a", ",", "b">>, <<",">>}

PrefixRequests ==
    { [NoRequest EXCEPT !.bucket = bk, !.prefixes = ps, !.prefix = px,
                        !.storageclass = sc] :
        bk \in {"", "b"}, ps \in PrefixLists, px \in {Empty, <<"p">>},
        sc \in {"", "GLACIER"} }

\* the flags s3.bucket, s3.prefixes and s3.storageclass
PrefixConfigs ==
    { [bucket |-> bk, prefixes |-> ps, storageclass |-> sc] :
        bk \in {"", "c"}, ps \in {Empty, <<"c">>, <<"c", ",", "d">>},
        sc \in {"", "STANDARD"} }

InitPrefixes ==
    /\ build = "storageclass"
    /\ cfg \in PrefixConfigs
    /\ alive = TRUE
    /\ probe = [p \in Probes |-> IdleProbe]
    /\ hist = NoHistory
    /\ disc = IdleDiscovery

NextPrefixes ==
    \/ \E req \in PrefixRequests :
          ProbeHandler("p1", req) /\ UNCHANGED <<hist, disc>>
    \/ \E resp \in Responses(probe["p1"], CallItems, 1, {0}, {"t"}, 1) :
          ListObjectsV2("p1", resp) /\ UNCHANGED <<hist, disc>>

SpecPrefixes == InitPrefixes /\ [][NextPrefixes]_vars

\* C26: whatever the prefixes list of an accepted probe is, the samples of
\* one collection never hold two samples with the same metric name and the
\* same label values
C26_NoDuplicateSamples ==
    \A p \in Probes :
        \A i, j \in 1..Len(probe[p].out) :
            (probe[p].out[i].name = probe[p].out[j].name
                /\ probe[p].out[i].labels = probe[p].out[j].labels) => i = j

\* the entries of a list joined by commas
RECURSIVE Join(_)
Join(list) ==
    IF Len(list) = 1 THEN list[1]
    ELSE list[1] \o <<",">> \o Join(Tail(list))

\* list holds the entries of the comma separated string s
IsListOf(list, s) ==
    /\ Len(list) >= 1
    /\ \A i \in 1..Len(list) : ~HasComma(list[i])
    /\ Join(list) = s

\* C27: an accepted probe lists the entries of the prefixes query parameter
\* if it is non-empty, else the prefix query parameter if non-empty, else
\* the entries of the static prefixes if non-empty, else the empty prefix;
\* a bucket or storage class of the query overrides the static one; the
\* prefix list is never empty and the probe makes at least one listing call
C27_PrefixPrecedence ==
    \A p \in Probes :
        LET pr == probe[p]
        IN  pr.pc \notin {"idle", "rejected"} =>
              /\ IF pr.req.prefixes # Empty
                 THEN IsListOf(pr.e.prefixes, pr.req.prefixes)
                 ELSE IF pr.req.prefix # Empty
                 THEN pr.e.prefixes = <<pr.req.prefix>>
                 ELSE IF cfg.prefixes # Empty
                 THEN IsListOf(pr.e.prefixes, cfg.prefixes)
                 ELSE pr.e.prefixes = <<Empty>>
              /\ pr.e.bucket = IF pr.req.bucket # "" THEN pr.req.bucket
                               ELSE cfg.bucket
              /\ pr.e.storageclass = IF pr.req.storageclass # ""
                                     THEN pr.req.storageclass
                                     ELSE cfg.storageclass
              /\ Len(pr.e.prefixes) >= 1
              /\ pr.pc = "next" => pr.pi < Len(pr.e.prefixes)
              /\ pr.pc \in {"done", "panicked"} => pr.calls >= 1

C27_Witness ==
    \E p \in Probes :
        /\ probe[p].pc = "done"
        /\ probe[p].req.prefixes = Empty /\ probe[p].req.prefix = Empty
        /\ probe[p].req.bucket = "" /\ probe[p].req.storageclass = ""
        /\ cfg = [bucket |-> "c", prefixes |-> <<"c", ",", "d">>,
                  storageclass |-> "STANDARD"]
        /\ probe[p].e = [bucket |-> "c", prefixes |-> <<<<"c">>, <<"d">>>>,
                         delimiter |-> "", storageclass |-> "STANDARD"]
        /\ probe[p].calls = 2

-----------------------------------------------------------------------------
(* Claims about the accumulators of one pagination *)

\* C28: after any pages have been folded, the biggest size is at most the
\* total size, the size of the latest item is at most the biggest size, and
\* with no item counted the three sizes are 0 and lastModified is the zero
\* time
C28_AccumulatorsOrdered ==
    \A p \in Probes :
        Folded(p) =>
            LET acc == probe[p].acc
            IN  /\ acc.biggestObjectSize <= acc.totalSize
                /\ acc.lastObjectSize <= acc.biggestObjectSize
                /\ acc.numberOfObjects = 0 =>
                      /\ acc.totalSize = 0
                      /\ acc.biggestObjectSize = 0
                      /\ acc.lastObjectSize = 0
                      /\ acc.lastModified = ZeroTime

C28_Witness ==
    \E p \in Probes :
        /\ Folded(p)
        /\ probe[p].pages = 2
        /\ probe[p].acc.numberOfObjects = 2
        /\ probe[p].acc.lastObjectSize = 1
        /\ probe[p].acc.biggestObjectSize = 2
        /\ probe[p].acc.totalSize = 3

\* SpecRun: one probe, listings of a few items that differ in time, size
\* and class
RunItems ==
    {Item(1, 1, "STANDARD"), Item(ZeroTime - 1, 2, "STANDARD"),
     Item(MaxTime, 2, "GLACIER")}

NextRun ==
    \/ \E req \in FoldRequests(build) :
          ProbeHandler("p1", req) /\ UNCHANGED <<hist, disc>>
    \/ \E resp \in Responses(probe["p1"], RunItems, MaxItems,
                              0..MaxCommonPrefixes, {"t"}, MaxPages) :
          ListObjectsV2("p1", resp) /\ UNCHANGED <<hist, disc>>

SpecRun == InitFold /\ [][NextRun]_vars

\* no accumulator of acc2 is below its value in acc1
NotBelow(acc1, acc2) ==
    /\ acc1.numberOfObjects <= acc2.numberOfObjects
    /\ acc1.totalSize <= acc2.totalSize
    /\ acc1.biggestObjectSize <= acc2.biggestObjectSize
    /\ acc1.lastModified <= acc2.lastModified
    /\ acc1.commonPrefixes <= acc2.commonPrefixes

\* C29: during the pagination of one prefix the object count, the total
\* size, the biggest size, lastModified and the common prefix count never
\* decrease, neither from one folded page to the next nor from one folded
\* item of a page to the next
C29_NeverDecreases ==
    [][\A p \in Probes :
          probe[p].pc \in {"next", "listing"} =>
            \A before \in {AtCall(probe[p])} : \A after \in {probe'[p]} :
              after.pi = before.pi =>
                \A page \in {SubSeq(after.seen, Len(before.seen) + 1,
                                    Len(after.seen))} :
                  \A accs \in {[k \in 0..Len(page) |->
                                  FoldContents(before.acc, SubSeq(page, 1, k),
                                               before.e.storageclass)]} :
                      /\ NotBelow(before.acc, after.acc)
                      /\ \A k \in 1..Len(page) :
                            NotBelow(accs[k - 1], accs[k])]_vars

C29_Witness ==
    \E p \in Probes :
        /\ Folded(p)
        /\ probe[p].pages = 2
        /\ Len(probe[p].seen) = 2
        /\ probe[p].seen[1].LastModified = 1
        /\ probe[p].seen[2].LastModified = ZeroTime - 1
        /\ probe[p].acc.numberOfObjects = 2
        /\ probe[p].acc.lastModified = 1

====
